---- MODULE Spec2Model ----
(***************************************************************************)
(* Model of src/tts_proxy.py: a FastAPI proxy that maps four inbound       *)
(* text-to-speech request shapes onto one streaming call to the upstream   *)
(* provider, sharing one aiohttp ClientSession created at startup.         *)
(*                                                                         *)
(* Strings that the code inspects (strip, lower, "in") are sequences of    *)
(* one-character strings; strings that are only compared or passed on      *)
(* (MIME types, header names, error details) are plain strings.            *)
(* Python values that may be None are records: None, or Str(s).            *)
(* Handlers run to their return without touching shared state, so each is  *)
(* one action; the body of eleven_stream is an async generator that the    *)
(* framework iterates after the response has started, so it is a sequence  *)
(* of steps interleaved with startup, shutdown and the caller.             *)
(* Requests share nothing but the global session (the generator keeps its  *)
(* state in locals), so one request is followed from arrival to its end,   *)
(* then the next.                                                          *)
(***************************************************************************)
EXTENDS Integers, Sequences, FiniteSets, TLC

VARIABLES
    TTS_SHARED_TOKEN,   \* line 8: shared secret, <<>> when not configured
    ELEVEN_VOICE_ID,    \* line 7: configured default voice
    session,            \* line 13: "None", or the state of the ClientSession it names
    livePools,          \* number of ClientSessions created and not yet closed
    phase,              \* lifecycle: "boot", "up", "closing", "down"
    pc,                 \* position of the request in flight
    inp,                \* the inbound request
    resp,               \* what the caller has received: status line, headers
    gen,                \* arguments bound to the eleven_stream generator
    out,                \* the outbound POST, once issued
    upstream,           \* the upstream response: status, body length, read offset
    readLog,            \* chunks iter_chunked has returned, in order
    relayed,            \* chunks yielded to the caller, in order
    caller,             \* "connected" or "gone"
    conn,               \* outbound connection of this request: "none", "held", "released"
    raised              \* exception that ended the generator, "none" otherwise

vars == <<TTS_SHARED_TOKEN, ELEVEN_VOICE_ID, session, livePools, phase, pc, inp,
          resp, gen, out, upstream, readLog, relayed, caller, conn, raised>>

config == <<TTS_SHARED_TOKEN, ELEVEN_VOICE_ID>>
lifecycle == <<session, livePools, phase>>
streamvars == <<out, upstream, readLog, relayed, conn, raised>>

----------------------------------------------------------------------------
(* Bounds *)

MaxBody == 3          \* longest upstream audio body, in bytes
ChunkSize == 2        \* bytes per iter_chunked read (8192 in the code, scaled)
MaxEmptyReads == 1    \* zero-length chunks the upstream iterator may return

----------------------------------------------------------------------------
(* Python values *)

None == [tag |-> "None"]
Absent == [tag |-> "absent"]          \* key not in the JSON object
Str(s) == [tag |-> "str", s |-> s]

IsStr(v) == v.tag = "str"

\* Python truthiness of None / str
Truthy(v) == IsStr(v) /\ v.s # <<>>

\* a or b
Or(a, b) == IF Truthy(a) THEN a ELSE b

\* dict.get(key): a missing key and a JSON null both give None
Get(d, k) == IF d[k] = Absent THEN None ELSE d[k]

\* dict.get(key, default)
GetDefault(d, k, default) == IF d[k] = Absent THEN default ELSE d[k]

IsSpace(c) == c = " "

RECURSIVE LStrip(_)
LStrip(s) == IF s # <<>> /\ IsSpace(Head(s)) THEN LStrip(Tail(s)) ELSE s

RECURSIVE RStrip(_)
RStrip(s) ==
    IF s # <<>> /\ IsSpace(s[Len(s)]) THEN RStrip(SubSeq(s, 1, Len(s) - 1)) ELSE s

\* a mutant of str.strip(): leaves the string as it is
StripNothing(s) == s

\* str.strip()
Strip(s) == RStrip(LStrip(s))

LowerChar(c) ==
    CASE c = "A" -> "a" [] c = "C" -> "c" [] c = "D" -> "d" [] c = "E" -> "e"
      [] c = "F" -> "f" [] c = "G" -> "g" [] c = "L" -> "l" [] c = "M" -> "m"
      [] c = "O" -> "o" [] c = "P" -> "p" [] c = "T" -> "t" [] c = "U" -> "u"
      [] c = "V" -> "v" [] c = "W" -> "w"
      [] OTHER -> c

\* str.lower()
Lower(s) == [i \in 1..Len(s) |-> LowerChar(s[i])]

\* sub in s
Contains(sub, s) ==
    \E i \in 0..(Len(s) - Len(sub)) : SubSeq(s, i + 1, i + Len(sub)) = sub

----------------------------------------------------------------------------
(* String literals the code compares against *)

s_default == <<"d", "e", "f", "a", "u", "l", "t">>
s_ogg == <<"o", "g", "g">>
s_opus == <<"o", "p", "u", "s">>
s_mp3 == <<"m", "p", "3">>
s_mpeg == <<"m", "p", "e", "g">>
s_wav == <<"w", "a", "v">>
s_aac == <<"a", "a", "c">>
s_flac == <<"f", "l", "a", "c">>
s_audio_mpeg == <<"a", "u", "d", "i", "o", "/", "m", "p", "e", "g">>

----------------------------------------------------------------------------
(* Responses a handler can produce *)

NoArgs == [text |-> <<>>, voice_id |-> None, accept |-> ""]

\* raise HTTPException(status_code, detail): the framework answers with that status
HTTPException(status_code, detail) ==
    [status |-> status_code, detail |-> detail, stream |-> FALSE,
     media_type |-> "application/json", headers |-> {}, args |-> NoArgs]

\* an exception no handler catches: the framework answers 500
Unhandled(exc) == HTTPException(500, exc)

\* FastAPI's answer when the declared request body does not validate
RequestValidationError == HTTPException(422, "Unprocessable Entity")

\* StreamingResponse(eleven_stream(...), media_type, headers): status 200, body lazy
StreamingResponse(args, media_type, headers) ==
    [status |-> 200, detail |-> "", stream |-> TRUE,
     media_type |-> media_type, headers |-> headers, args |-> args]

\* the arguments eleven_stream is called with; accept defaults to "audio/mpeg"
eleven_stream_args(text, voice_id, accept) ==
    [text |-> text, voice_id |-> voice_id, accept |-> accept]

NoCacheHeaders == {<<"X-Accel-Buffering", "no">>, <<"Cache-Control", "no-store">>}

IsMalformed(body) == body.tag = "malformed"

----------------------------------------------------------------------------
(* Helpers of the module *)

\* _authed(req)
_authed(req) == (TTS_SHARED_TOKEN = <<>>) \/ (req.token = Str(TTS_SHARED_TOKEN))

\* _accept_for(fmt)
_accept_for(fmt) ==
    LET f == Lower(Or(fmt, Str(<<>>)).s)
    IN  IF Contains(s_ogg, f) \/ Contains(s_opus, f) THEN "audio/ogg" ELSE "audio/mpeg"

\* _mime_type(fmt)
_mime_type(fmt) ==
    LET f == Lower(Or(fmt, Str(s_mp3)).s)
    IN  CASE f = s_mp3 -> "audio/mpeg"
          [] f = s_opus -> "audio/ogg"
          [] f = s_wav -> "audio/wav"
          [] f = s_aac -> "audio/aac"
          [] f = s_flac -> "audio/flac"
          [] OTHER -> "audio/mpeg"

----------------------------------------------------------------------------
(* Route handlers: the response each returns for a request *)

\* POST /speak
speak(req) ==
    IF ~_authed(req) THEN HTTPException(401, "Unauthorized")
    ELSE IF IsMalformed(req.body) THEN Unhandled("JSONDecodeError")
    ELSE LET t == GetDefault(req.body, "text", Str(<<>>))
         IN  IF ~IsStr(t) THEN Unhandled("AttributeError")
             ELSE LET text == Strip(t.s)
                  IN  IF text = <<>> THEN HTTPException(400, "Empty text")
                      ELSE StreamingResponse(
                               eleven_stream_args(text, None, "audio/mpeg"),
                               "audio/mpeg", {})

\* POST /tts/speech
owui_backend_compat(req) ==
    IF IsMalformed(req.body) THEN HTTPException(400, "Invalid JSON")
    ELSE LET payload == req.body
             text == Strip(Or(Or(Get(payload, "text"), Get(payload, "input")),
                              Str(<<>>)).s)
             voice0 == Or(Or(Get(payload, "voice"), Get(payload, "voice_id")),
                          Str(ELEVEN_VOICE_ID))
             voice == IF Truthy(voice0) /\ Lower(voice0.s) = s_default
                      THEN Str(ELEVEN_VOICE_ID) ELSE voice0
             fmt == Or(Get(payload, "format"), Str(s_audio_mpeg))
             accept == _accept_for(fmt)
         IN  IF text = <<>>
             THEN HTTPException(400, "Missing 'text' or 'input' field")
             ELSE StreamingResponse(eleven_stream_args(text, voice, accept),
                                    accept, NoCacheHeaders)

\* POST /v1/text-to-speech/{voice_id}
eleven_compatible(voice_id, req) ==
    IF IsMalformed(req.body) THEN Unhandled("JSONDecodeError")
    ELSE LET t == GetDefault(req.body, "text", Str(<<>>))
         IN  IF ~IsStr(t) THEN Unhandled("AttributeError")
             ELSE LET text == Strip(t.s)
                  IN  IF text = <<>> THEN HTTPException(400, "Missing text")
                      ELSE StreamingResponse(
                               eleven_stream_args(text, Str(voice_id), "audio/mpeg"),
                               "audio/mpeg", NoCacheHeaders)

\* POST /tts//speech
owui_backend_compat_slashslash(req) == owui_backend_compat(req)

\* POST /text-to-speech/{voice_id}
eleven_compatible_alias(voice_id, req) == eleven_compatible(voice_id, req)

\* class OpenAITTSRequest: input is a required str, voice and response_format
\* are optional str
OpenAITTSRequestValid(body) ==
    /\ ~IsMalformed(body)
    /\ IsStr(body["input"])

\* POST /v1/audio/speech. The framework validates the declared body before it
\* calls the handler.
openai_audio_speech(request) ==
    IF ~OpenAITTSRequestValid(request.body) THEN RequestValidationError
    ELSE LET req == request.body
             given == Or(request.token, Str(<<>>)).s
             text == Strip(req["input"].s)
             voice0 == Or(Get(req, "voice"), Str(ELEVEN_VOICE_ID))
             voice == IF Truthy(voice0) /\ Lower(voice0.s) = s_default
                      THEN Str(ELEVEN_VOICE_ID) ELSE voice0
             fmt == Str(Lower(Or(GetDefault(req, "response_format", Str(s_mp3)),
                                 Str(s_mp3)).s))
             accept == _mime_type(fmt)
         IN  IF TTS_SHARED_TOKEN # <<>> /\ given # TTS_SHARED_TOKEN
             THEN HTTPException(401, "Invalid TTS token")
             ELSE IF text = <<>> THEN HTTPException(400, "Missing 'input' text")
             ELSE IF ~Truthy(voice) THEN HTTPException(400, "Missing voice ID")
             ELSE StreamingResponse(eleven_stream_args(text, voice, accept),
                                    accept, NoCacheHeaders)

----------------------------------------------------------------------------
(* Inbound requests *)

Malformed == [tag |-> "malformed"]

JsonObject(text, input, voice, voice_id, format) ==
    [tag |-> "object", text |-> text, input |-> input, voice |-> voice,
     voice_id |-> voice_id, format |-> format, response_format |-> format]

TextValues ==
    {Absent, None, Str(<<>>), Str(<<" ">>), Str(<<"a">>), Str(<<" ", "a", " ">>)}

InputValues == {Absent, Str(<<" ">>), Str(<<"b">>)}

VoiceValues ==
    {None, Str(<<>>), Str(s_default), Str(<<"D", "e", "f", "a", "u", "l", "t">>),
     Str(<<"D", "E", "F", "A", "U", "L", "T">>), Str(<<"v", "1">>)}

FormatValues ==
    {None, Str(s_ogg), Str(s_opus), Str(s_mp3), Str(s_mpeg), Str(s_wav),
     Str(s_aac), Str(s_flac), Str(<<"O", "G", "G">>), Str(<<"W", "a", "v">>),
     Str(<<"p", "c", "m">>)}

\* JSON bodies: every text/input combination, then one field varied at a time
Bodies ==
    {Malformed}
    \cup {JsonObject(t, i, Absent, Absent, Absent) : t \in TextValues, i \in InputValues}
    \cup {JsonObject(Str(<<"a">>), Str(<<"b">>), v, Absent, Absent) : v \in VoiceValues}
    \cup {JsonObject(Str(<<"a">>), Str(<<"b">>), Absent, v, Absent) :
              v \in {Str(s_default), Str(<<"v", "1">>)}}
    \cup {JsonObject(Str(<<"a">>), Str(<<"b">>), Absent, Absent, f) : f \in FormatValues}

\* X-TTS-Token: not sent, the secret, something else
TokenHeaders == {None, Str(<<"s">>), Str(<<"x">>)}

\* {voice_id} of /v1/text-to-speech/{voice_id}
PathVoices == {s_default, <<"D", "e", "f", "a", "u", "l", "t">>, <<"v", "1">>}

Request(route, token, voice_id, body) ==
    [route |-> route, token |-> token, voice_id |-> voice_id, body |-> body]

NoRequest == [route |-> "none"]

UpstreamStatuses == {200, 204, 500}

\* the audio the upstream would send: n distinct bytes
Audio(n) == [i \in 1..n |-> i]

NoPost == [posted |-> FALSE]
NoUpstream == [status |-> 0]
NoResponse == [status |-> 0]
NoException == [exc |-> "none"]

----------------------------------------------------------------------------
(* Initial state: the module has been imported, nothing has run *)

\* os.getenv values: no secret, a secret, and neither secret nor default voice
Environments ==
    {<< <<>>, <<"v", "0">> >>, << <<"s">>, <<"v", "0">> >>, << <<>>, <<>> >>}

Init ==
    /\ \E env \in Environments :
          /\ TTS_SHARED_TOKEN = env[1]
          /\ ELEVEN_VOICE_ID = env[2]
    /\ session = "None"
    /\ livePools = 0
    /\ phase = "boot"
    /\ pc = "idle"
    /\ inp = NoRequest
    /\ resp = NoResponse
    /\ gen = NoArgs
    /\ out = NoPost
    /\ upstream = NoUpstream
    /\ readLog = <<>>
    /\ relayed = <<>>
    /\ caller = "connected"
    /\ conn = "none"
    /\ raised = NoException

----------------------------------------------------------------------------
(* Lifecycle *)

\* _startup: the framework runs it once, before serving
_startup ==
    /\ phase = "boot"
    /\ session' = "open"
    /\ livePools' = livePools + 1
    /\ phase' = "up"
    /\ UNCHANGED <<config, pc, inp, resp, gen, streamvars, caller>>

\* _shutdown up to the await: `if session: await session.close()`
_shutdown ==
    /\ phase \in {"boot", "up"}
    /\ IF session # "None"
       THEN /\ session' = "closed"
            /\ livePools' = livePools - 1
            /\ phase' = "closing"
       ELSE /\ phase' = "down"
            /\ UNCHANGED <<session, livePools>>
    /\ UNCHANGED <<config, pc, inp, resp, gen, streamvars, caller>>

\* _shutdown after the await: `session = None`
_shutdown_clear ==
    /\ phase = "closing"
    /\ session' = "None"
    /\ phase' = "down"
    /\ UNCHANGED <<config, livePools, pc, inp, resp, gen, streamvars, caller>>

----------------------------------------------------------------------------
(* A handler runs and the framework starts the response *)

\* The framework sends the status line and headers of what the handler returned
\* (or of the error it raised); a StreamingResponse's body is iterated afterwards.
Respond(req, r) ==
    /\ inp' = req
    /\ resp' = [status |-> r.status, content_type |-> r.media_type,
                headers |-> r.headers, detail |-> r.detail]
    /\ gen' = r.args
    /\ pc' = IF r.stream THEN "streaming" ELSE "answered"
    /\ UNCHANGED <<config, lifecycle, streamvars, caller>>

Speak ==
    \E t \in TokenHeaders, b \in Bodies :
        LET req == Request("/speak", t, None, b)
        IN  /\ pc = "idle"
            /\ Respond(req, speak(req))

OwuiBackendCompat ==
    \E b \in Bodies :
        LET req == Request("/tts/speech", None, None, b)
        IN  /\ pc = "idle"
            /\ Respond(req, owui_backend_compat(req))

ElevenCompatible ==
    \E v \in PathVoices, b \in Bodies :
        LET req == Request("/v1/text-to-speech/{voice_id}", None, Str(v), b)
        IN  /\ pc = "idle"
            /\ Respond(req, eleven_compatible(v, req))

OwuiBackendCompatSlashslash ==
    \E b \in Bodies :
        LET req == Request("/tts//speech", None, None, b)
        IN  /\ pc = "idle"
            /\ Respond(req, owui_backend_compat_slashslash(req))

ElevenCompatibleAlias ==
    \E v \in PathVoices, b \in Bodies :
        LET req == Request("/text-to-speech/{voice_id}", None, Str(v), b)
        IN  /\ pc = "idle"
            /\ Respond(req, eleven_compatible_alias(v, req))

OpenaiAudioSpeech ==
    \E t \in TokenHeaders, b \in Bodies :
        LET req == Request("/v1/audio/speech", t, None, b)
        IN  /\ pc = "idle"
            /\ Respond(req, openai_audio_speech(req))

----------------------------------------------------------------------------
(* eleven_stream: the generator body, run step by step after the response    *)
(* has started                                                               *)

Active == {"streaming", "posted", "reading"}
Ended == {"answered", "done", "aborted", "cancelled"}

Min(a, b) == IF a < b THEN a ELSE b

\* `assert session is not None`
SessionAsserted == session # "None"

\* a mutant of session.post: a client that posts whatever state the shared
\* session is in
SessionAcceptsAlways == TRUE

\* session.post(...): a closed ClientSession refuses the request
SessionAccepts == session = "open"

\* a mutant of `async with`: the response is not released on the way out
KeepConnection(c) == c

\* leaving `async with session.post(...) as r`, normally or by an exception
ExitAsyncWith(c) == IF c = "held" THEN "released" ELSE c

\* a mutant of the relay loop: yields every chunk
YieldAll(sent, chunk) == Append(sent, chunk)

\* `if chunk: yield chunk`
Yield(sent, chunk) == IF chunk # <<>> THEN Append(sent, chunk) ELSE sent

IsEmptyChunk(c) == c = <<>>

EmptyReads == Len(SelectSeq(readLog, IsEmptyChunk))

\* the detail of the HTTPException raised for a non-200 upstream status
UpstreamErrorDetail == <<"ElevenLabs API error: ", "upstream error text">>

\* First step of the generator: the assertion, the defaults, the POST
StreamPost ==
    /\ pc = "streaming"
    /\ inp' = NoRequest
    /\ gen' = NoArgs
    /\ IF ~SessionAsserted
       THEN /\ raised' = [exc |-> "AssertionError"]
            /\ pc' = "aborted"
            /\ UNCHANGED <<out, conn>>
       ELSE IF ~SessionAccepts
       THEN /\ raised' = [exc |-> "RuntimeError"]
            /\ pc' = "aborted"
            /\ UNCHANGED <<out, conn>>
       ELSE /\ out' = [posted |-> TRUE,
                       voice_id |-> Or(gen.voice_id, Str(ELEVEN_VOICE_ID)).s,
                       accept |-> gen.accept,
                       text |-> gen.text]
            /\ conn' = "held"
            /\ pc' = "posted"
            /\ UNCHANGED raised
    /\ UNCHANGED <<config, lifecycle, resp, upstream, readLog, relayed, caller>>

\* The upstream answers: `if r.status != 200: raise HTTPException(502, ...)`.
\* The response to the caller has started already, so its status line stays.
StreamStatus ==
    /\ pc = "posted"
    /\ \E st \in UpstreamStatuses, n \in 0..MaxBody :
          /\ upstream' = [status |-> st, n |-> n, off |-> 0]
          /\ IF st # 200
             THEN /\ raised' = [exc |-> "HTTPException", status_code |-> 502,
                                detail |-> UpstreamErrorDetail]
                  /\ conn' = ExitAsyncWith(conn)
                  /\ pc' = "aborted"
             ELSE /\ pc' = "reading"
                  /\ UNCHANGED <<raised, conn>>
    /\ UNCHANGED <<config, lifecycle, inp, resp, gen, out, readLog, relayed, caller>>

\* One turn of `async for chunk in r.content.iter_chunked(8192)`
ReadChunk ==
    /\ pc = "reading"
    /\ \E k \in 0..Min(ChunkSize, upstream.n - upstream.off) :
          /\ k = 0 => EmptyReads < MaxEmptyReads
          /\ LET chunk == SubSeq(Audio(upstream.n), upstream.off + 1, upstream.off + k)
             IN  /\ readLog' = Append(readLog, chunk)
                 /\ relayed' = Yield(relayed, chunk)
          /\ upstream' = [upstream EXCEPT !.off = @ + k]
    /\ UNCHANGED <<config, lifecycle, pc, inp, resp, gen, out, caller, conn, raised>>

\* End of the upstream body: the loop and the `async with` are left
StreamEnd ==
    /\ pc = "reading"
    /\ upstream.off = upstream.n
    /\ pc' = "done"
    /\ conn' = ExitAsyncWith(conn)
    /\ UNCHANGED <<config, lifecycle, inp, resp, gen, out, upstream, readLog, relayed,
                   caller, raised>>

\* The outbound call fails: the 20 s timeout, a network error, the pool closed
UpstreamFail ==
    /\ pc \in {"posted", "reading"}
    /\ raised' = [exc |-> "ClientError"]
    /\ conn' = ExitAsyncWith(conn)
    /\ pc' = "aborted"
    /\ UNCHANGED <<config, lifecycle, inp, resp, gen, out, upstream, readLog, relayed,
                   caller>>

\* The inbound caller goes away while the response is being streamed
Disconnect ==
    /\ pc \in Active
    /\ caller = "connected"
    /\ caller' = "gone"
    /\ UNCHANGED <<config, lifecycle, pc, inp, resp, gen, streamvars>>

\* The framework cancels the streaming task of a caller that is gone: the
\* generator is left where it was suspended
Cancel ==
    /\ pc \in Active
    /\ caller = "gone"
    /\ raised' = [exc |-> "CancelledError"]
    /\ conn' = ExitAsyncWith(conn)
    /\ pc' = "cancelled"
    /\ inp' = NoRequest
    /\ gen' = NoArgs
    /\ UNCHANGED <<config, lifecycle, resp, out, upstream, readLog, relayed, caller>>

\* The request is over; the next one arrives
NextRequest ==
    /\ pc \in Ended
    /\ pc' = "idle"
    /\ inp' = NoRequest
    /\ resp' = NoResponse
    /\ gen' = NoArgs
    /\ out' = NoPost
    /\ upstream' = NoUpstream
    /\ readLog' = <<>>
    /\ relayed' = <<>>
    /\ caller' = "connected"
    /\ conn' = "none"
    /\ raised' = NoException
    /\ UNCHANGED <<config, lifecycle>>

Next ==
    \/ _startup
    \/ _shutdown
    \/ _shutdown_clear
    \/ Speak
    \/ OwuiBackendCompat
    \/ ElevenCompatible
    \/ OwuiBackendCompatSlashslash
    \/ ElevenCompatibleAlias
    \/ OpenaiAudioSpeech
    \/ StreamPost
    \/ StreamStatus
    \/ ReadChunk
    \/ StreamEnd
    \/ UpstreamFail
    \/ Disconnect
    \/ Cancel
    \/ NextRequest

Spec == Init /\ [][Next]_vars

\* The event loop runs the task that watches the inbound connection, so a
\* disconnect is acted on
LiveSpec == Init /\ [][Next]_vars /\ WF_vars(Cancel)

----------------------------------------------------------------------------
(* Properties *)

\* the handler has just returned: the request and its response are both at hand
Handled == pc \in {"answered", "streaming"}

RECURSIVE Concat(_)
Concat(chunks) == IF chunks = <<>> THEN <<>> ELSE Head(chunks) \o Concat(Tail(chunks))

IsAudioChunk(c) == c # <<>>

OnlyWhitespace(s) == \A i \in 1..Len(s) : IsSpace(s[i])

\* the field is missing from the JSON object, or is a string of whitespace only
Blank(v) == v = Absent \/ (IsStr(v) /\ OnlyWhitespace(v.s))

\* the text field(s) the route reads are all blank
BlankText(req) ==
    /\ req.route # "none"
    /\ ~IsMalformed(req.body)
    /\ CASE req.route \in {"/tts/speech", "/tts//speech"} -> Blank(req.body["text"]) /\ Blank(req.body["input"])
         [] req.route = "/v1/audio/speech" -> Blank(req.body["input"])
         [] OTHER -> Blank(req.body["text"])

TokenMatches(req) == req.token = Str(TTS_SHARED_TOKEN)

\* C1: when the upstream answers with a non-200 status, the caller receives a
\* 502 whose body carries the upstream's error text, and no audio is emitted.
C1_UpstreamErrorIs502 ==
    (upstream.status \notin {0, 200}) =>
        /\ resp.status = 502
        /\ resp.detail = UpstreamErrorDetail
        /\ relayed = <<>>

\* C2: with a secret configured, a request to /speak or /v1/audio/speech whose
\* X-TTS-Token is absent or different is answered 401 and makes no outbound
\* call, whatever its body (stated for bodies that are well-formed JSON); with
\* no secret configured it is never refused for its header.
C2_AuthGate ==
    (Handled /\ inp.route \in {"/speak", "/v1/audio/speech"} /\ ~IsMalformed(inp.body)) =>
        /\ (TTS_SHARED_TOKEN # <<>> /\ ~TokenMatches(inp)) =>
               (resp.status = 401 /\ pc = "answered" /\ ~out.posted)
        /\ (TTS_SHARED_TOKEN = <<>>) => resp.status # 401

C4_MalformedJsonIs400 ==
    (Handled /\ inp.route # "none" /\ IsMalformed(inp.body) /\ _authed(inp)) =>
        (resp.status = 400 /\ pc = "answered" /\ ~out.posted)

\* C5: the stream body issues its outbound POST only while the pool is live,
\* and there is never more than one live pool.
C5_PostOnlyWhileLive ==
    /\ [](livePools <= 1)
    /\ [][(~out.posted /\ out'.posted) => (session = "open" /\ livePools = 1)]_vars

C5_Witness == pc = "posted" /\ out.posted /\ session = "open" /\ livePools = 1

\* C6: for a 200 upstream response the chunks relayed are, in order, exactly
\* the non-empty chunks read; they add up to the bytes read so far, to the
\* whole body once the stream is done, and none of them is empty.
C6_RelayExact ==
    (pc \in {"reading", "done"}) =>
        /\ relayed = SelectSeq(readLog, IsAudioChunk)
        /\ \A i \in 1..Len(relayed) : relayed[i] # <<>>
        /\ Concat(relayed) = SubSeq(Audio(upstream.n), 1, upstream.off)
        /\ (pc = "done") => Concat(relayed) = Audio(upstream.n)

C6_Witness ==
    /\ pc = "done"
    /\ upstream.n = MaxBody
    /\ Len(relayed) >= 2
    /\ EmptyReads > 0

\* the MIME type the format table gives for a requested format
TableMime(route, f) ==
    LET name == IF IsStr(f) THEN f.s ELSE <<>>
    IN  CASE name \in {s_ogg, s_opus} -> "audio/ogg"
          [] route = "/v1/audio/speech" /\ name = s_wav -> "audio/wav"
          [] route = "/v1/audio/speech" /\ name = s_aac -> "audio/aac"
          [] route = "/v1/audio/speech" /\ name = s_flac -> "audio/flac"
          [] OTHER -> "audio/mpeg"

TableFormats ==
    {Absent, Str(s_ogg), Str(s_opus), Str(s_mp3), Str(s_mpeg), Str(s_wav),
     Str(s_aac), Str(s_flac)}

\* C7: on /tts/speech and /v1/audio/speech, "ogg" and "opus" map to audio/ogg,
\* "mp3", "mpeg" and no format to audio/mpeg, and on /v1/audio/speech "wav",
\* "aac" and "flac" to their own types; the mapped type is both the upstream
\* Accept and the response content type.
C7_FormatMapping ==
    (/\ pc = "streaming"
     /\ inp.route \in {"/tts/speech", "/tts//speech", "/v1/audio/speech"}
     /\ inp.body["format"] \in TableFormats) =>
        /\ gen.accept = TableMime(inp.route, inp.body["format"])
        /\ resp.content_type = gen.accept

\* C8: every streaming response, /speak included, carries Cache-Control:
\* no-store and X-Accel-Buffering: no, and declares the Accept type sent
\* upstream as its content type.
C8_StreamingHeaders ==
    (pc = "streaming") =>
        /\ NoCacheHeaders \subseteq resp.headers
        /\ resp.content_type = gen.accept

\* C9: on every route that accepts a voice, "default" in any letter case
\* resolves to the configured voice: the outbound call never names the voice
\* "default".
C9_DefaultVoiceResolved == out.posted => Lower(out.voice_id) # s_default

\* C10: once the inbound caller is gone, the outbound connection is released
\* and the stream is over: no connection stays held by a request without a
\* caller.
C10_ReleasedAfterDisconnect ==
    (caller = "gone") ~> (conn # "held" /\ pc \notin Active)

C10_Witness ==
    /\ caller = "gone"
    /\ pc = "cancelled"
    /\ conn = "released"
    /\ readLog # <<>>
    /\ upstream.off < upstream.n

====
